---------------------------- MODULE Spec2Model ----------------------------
(***************************************************************************)
(* nana::filesystem::directory_iterator                                    *)
(* (include/nana/filesystem/filesystem.hpp).                               *)
(*                                                                         *)
(* The state is a small pool of iterator objects, the native scan handles  *)
(* they opened, and the platform backend the header was compiled for.      *)
(* Both backends of _m_prepare/_m_read are modelled as written.  The Linux *)
(* branch of _m_read builds the entry from wfd_, the WIN32_FIND_DATA       *)
(* member, which no Linux code path ever fills: its content is taken to be *)
(* indeterminate and is drawn from UninitFindData when an iterator is      *)
(* constructed.                                                            *)
(***************************************************************************)
EXTENDS Integers, Sequences, FiniteSets, TLC

\* ------------------------------------------------------------------ bounds
MaxIters == 2      \* iterator objects that exist at the same time
MaxOpens == 1      \* native opens that succeed in one behaviour
MaxRaw   == 3      \* raw entries in one directory

\* ------------------------------------------------------- values and inputs
Null == 0          \* nullptr / no handle

Iters   == 1..MaxIters
Handles == 1..MaxOpens

Backends  == {"windows", "linux"}
PathKinds == {"missing", "denied", "file", "dir"}

\* A file size as the two 32-bit words nFileSizeHigh / nFileSizeLow.
Size(hi, lo) == [hi |-> hi, lo |-> lo]
Zero == Size(0, 0)

Raw(n, d, s) == [name |-> n, dir |-> d, size |-> s]

\* The raw entries a directory may hold: '.', '...', a regular file of 10
\* bytes, a subdirectory, and a dot-file of 2^32 + 10 bytes.
RawPool ==
    { Raw(<<".">>, TRUE, Zero),
      Raw(<<".", ".", ".">>, FALSE, Size(0, 3)),
      Raw(<<"a">>, FALSE, Size(0, 10)),
      Raw(<<"b">>, TRUE, Zero),
      Raw(<<".", "c">>, FALSE, Size(1, 10)) }

RECURSIVE SeqsUpTo(_)
SeqsUpTo(n) ==
    IF n = 0 THEN { <<>> }
    ELSE LET S == SeqsUpTo(n - 1)
         IN  S \cup { Append(s, e) : s \in { t \in S : Len(t) = n - 1 }, e \in RawPool }

NoDupNames(s) == \A i, j \in 1..Len(s) : i # j => s[i].name # s[j].name

\* Every native enumeration order of every directory of at most MaxRaw entries.
DirSeqs == { s \in SeqsUpTo(MaxRaw) : NoDupNames(s) }

\* What a path names: nothing, an unreadable directory, a regular file, or a
\* readable directory with the given raw entries.
PathInputs ==
    { [kind |-> "missing", raw |-> <<>>], [kind |-> "denied", raw |-> <<>>] }
    \cup { [kind |-> "file", raw |-> <<e>>] : e \in { r \in RawPool : ~r.dir } }
    \cup { [kind |-> "dir", raw |-> s] : s \in DirSeqs }

\* --------------------------------------------------------- directory_entry
Entry(n, d, s) == [m_path |-> n, size |-> s, directory |-> d]

DefaultEntry == Entry(<<>>, FALSE, Zero)

Sep == "/"

RECURSIVE LastSep(_, _)
LastSep(t, k) ==
    IF k = 0 THEN 0
    ELSE IF t[k] = Sep THEN k ELSE LastSep(t, k - 1)

\* path::name(): the text after the last separator, the whole text if none.
PathName(t) == SubSeq(t, LastSep(t, Len(t)) + 1, Len(t))

\* WIN32_FIND_DATA
FindData(n, d, s) ==
    [cFileName |-> n, isDirAttr |-> d, nFileSizeHigh |-> s.hi, nFileSizeLow |-> s.lo]

ToFindData(r) == FindData(r.name, r.dir, r.size)

\* Contents wfd_ may have before any native call has filled it.
UninitFindData ==
    { FindData(<<>>, FALSE, Zero), FindData(<<".">>, TRUE, Size(0, 7)) }


\* ------------------------------------------------------------------- state
VARIABLES
    backend,   \* the platform the header is compiled for
    its,       \* the directory_iterator objects, by slot
    hs,        \* the native scan handles, by the order they were opened
    nOpens,    \* native opens that succeeded so far
    hist,      \* history of each iterator object (not program state)
    maxUse,    \* history: the most owners each handle ever had at once
    ret        \* what the last call returned, if it was operator*, == or !=

vars == <<backend, its, hs, nOpens, hist, maxUse, ret>>

\* The data members of directory_iterator (path_ only feeds the stat call,
\* whose outcome is an input here).
Iter(e, w, fp, h, v) ==
    [alive |-> TRUE, end_ |-> e, wfd_ |-> w, find_ptr_ |-> fp, handle_ |-> h, value_ |-> v]

NoIter ==
    [alive |-> FALSE, end_ |-> TRUE, wfd_ |-> FindData(<<>>, FALSE, Zero),
     find_ptr_ |-> Null, handle_ |-> Null, value_ |-> DefaultEntry]

\* A native cursor: the raw entries not read yet, in native order, and how
\* often the handle was closed.
HandleRec(st, rest, closes) == [state |-> st, rest |-> rest, closes |-> closes]

NoHandle == HandleRec("none", <<>>, 0)

NoRaw == Raw(<<>>, FALSE, Zero)

\* ---------------------------------------------------------------- helpers
RECURSIVE IgnoreFrom(_, _)
IgnoreFrom(p, k) ==
    IF k <= Len(p) /\ p[k] = "." THEN IgnoreFrom(p, k + 1) ELSE k = Len(p) + 1

\* Variant: a name is ignored as soon as it starts with '.'.
m_ignore_leading(p) == p # <<>> /\ p[1] = "."

\* Variant: only the name "." is ignored.
m_ignore_single(p) == p = <<".">>

\* _m_ignore: skip the leading '.' characters, then test for the terminator.
m_ignore(p) == IgnoreFrom(p, 1)

\* directory_iterator::equal
equal(x, y) ==
    IF x.end_ /\ (x.end_ = y.end_) THEN TRUE
    ELSE PathName(x.value_.m_path) = PathName(y.value_.m_path)

\* value_type(wfd_.cFileName, FILE_ATTRIBUTE_DIRECTORY bit, wfd_.nFileSizeLow)
EntryFromFindData(w) == Entry(w.cFileName, w.isDirAttr, Size(0, w.nFileSizeLow))

\* value_type(d_name, S_ISDIR(st_mode), st_size) (unsigned long holds st_size)
EntryFromStat(r) == Entry(r.name, r.dir, r.size)

\* stat failed in _m_prepare: name, size 0, not a directory
EntryDegraded(r) == Entry(r.name, FALSE, Zero)

\* stat failed in _m_read: only the name is assigned
EntryRenamed(v, r) == [v EXCEPT !.m_path = r.name]

\* FindFirstFile succeeds on a file pattern and on "dir\*" when something
\* matches; opendir succeeds on a readable directory.
NativeOpenOk(b, inp) ==
    IF b = "windows"
    THEN inp.kind = "file" \/ (inp.kind = "dir" /\ inp.raw # <<>>)
    ELSE inp.kind = "dir"

\* FindNextFile / readdir on an open cursor.
ReadNext(hr) ==
    IF hr.rest # <<>>
    THEN [ok |-> TRUE, ent |-> Head(hr.rest), hr |-> [hr EXCEPT !.rest = Tail(hr.rest)]]
    ELSE [ok |-> FALSE, ent |-> NoRaw, hr |-> hr]

\* FindClose / closedir
NativeClose(hr) == HandleRec("closed", <<>>, hr.closes + 1)

\* while(_m_ignore(name)) { read next; on failure give up }
RECURSIVE Skip(_, _)
Skip(hr, ent) ==
    IF m_ignore(ent.name)
    THEN LET r == ReadNext(hr)
         IN  IF r.ok THEN Skip(r.hr, r.ent)
             ELSE [ok |-> FALSE, ent |-> ent, hr |-> hr]
    ELSE [ok |-> TRUE, ent |-> ent, hr |-> hr]

\* Variant: the flag is left as it was.
MarkEnd_skipped(it) == it

\* Variant: the flag is flipped instead of set.
MarkEnd_toggled(it) == [it EXCEPT !.end_ = ~it.end_]

\* end_ = true on a failed open / a failed read
MarkEnd(it) == [it EXCEPT !.end_ = TRUE]

\* Variant: the raw handle is kept even when no shared owner is created.
StoreHandle_raw(it, h) ==
    IF it.end_ = FALSE THEN [it EXCEPT !.find_ptr_ = h, !.handle_ = h]
    ELSE [it EXCEPT !.handle_ = h]

\* if(false == end_) { find_ptr_ = shared_ptr(new handle, deleter); handle_ = handle; }
StoreHandle(it, h) ==
    IF it.end_ = FALSE THEN [it EXCEPT !.find_ptr_ = h, !.handle_ = h] ELSE it

\* Variant: the deleter frees the holder without closing the native handle.
inner_handle_deleter_noclose(hr) == hr

\* inner_handle_deleter: close the native handle the shared pointer owns.
inner_handle_deleter(hr) == NativeClose(hr)

\* Number of iterator objects whose find_ptr_ owns handle h.
UseCount(I, h) == Cardinality({ i \in Iters : I[i].alive /\ I[i].find_ptr_ = h })

\* A shared_ptr to h was dropped: the deleter runs when no owner is left.
Release(H, I, h) ==
    IF h # Null /\ UseCount(I, h) = 0
    THEN [H EXCEPT ![h] = inner_handle_deleter(H[h])]
    ELSE H

\* What one run of _m_prepare / _m_read did: the object, the cursor, whether
\* a native handle was opened (an entry was produced, for _m_read), the raw
\* entry the produced entry stands for and whether its metadata was read.
Result(it, hr, done, cur, metaOk) ==
    [it |-> it, hr |-> hr, done |-> done, cur |-> cur, metaOk |-> metaOk]

\* _m_prepare, NANA_WINDOWS
m_prepare_windows(it, inp) ==
    IF ~NativeOpenOk("windows", inp)
    THEN Result(MarkEnd(it), NoHandle, FALSE, NoRaw, FALSE)
    ELSE LET hr0 == HandleRec("open", Tail(inp.raw), 0)
             s   == Skip(hr0, Head(inp.raw))
             w   == ToFindData(s.ent)
         IN  IF ~s.ok
             THEN Result([MarkEnd(it) EXCEPT !.wfd_ = w], NativeClose(s.hr),
                         TRUE, NoRaw, FALSE)
             ELSE Result([it EXCEPT !.wfd_ = w, !.value_ = EntryFromFindData(w)],
                         s.hr, TRUE, s.ent, TRUE)

\* _m_prepare, NANA_LINUX
m_prepare_linux(it, inp, statOk) ==
    IF ~NativeOpenOk("linux", inp)
    THEN Result(MarkEnd(it), NoHandle, FALSE, NoRaw, FALSE)
    ELSE LET hr0 == HandleRec("open", inp.raw, 0)
             r   == ReadNext(hr0)
             s   == Skip(r.hr, r.ent)
         IN  IF ~r.ok
             THEN Result(MarkEnd(it), hr0, TRUE, NoRaw, FALSE)
             ELSE IF ~s.ok
             THEN Result(MarkEnd(it), NativeClose(s.hr), TRUE, NoRaw, FALSE)
             ELSE Result([it EXCEPT !.end_ = FALSE,
                                    !.value_ = IF statOk THEN EntryFromStat(s.ent)
                                               ELSE EntryDegraded(s.ent)],
                         s.hr, TRUE, s.ent, statOk)

\* _m_prepare, then the shared ownership of the handle (lines 242-246)
m_prepare(b, it, inp, statOk, h) ==
    LET p == IF b = "windows" THEN m_prepare_windows(it, inp)
             ELSE m_prepare_linux(it, inp, statOk)
    IN  [p EXCEPT !.it = StoreHandle(p.it, h)]

\* _m_read, NANA_WINDOWS
m_read_windows(it, hr) ==
    LET r == ReadNext(hr)
        s == Skip(r.hr, r.ent)
        w == ToFindData(s.ent)
    IN  IF ~r.ok
        THEN Result(MarkEnd(it), hr, FALSE, NoRaw, FALSE)
        ELSE IF ~s.ok
        THEN Result([MarkEnd(it) EXCEPT !.wfd_ = w], s.hr, FALSE, NoRaw, FALSE)
        ELSE Result([it EXCEPT !.wfd_ = w, !.value_ = EntryFromFindData(w)],
                    s.hr, TRUE, s.ent, TRUE)

\* _m_read, NANA_LINUX
m_read_linux(it, hr, statOk) ==
    LET r == ReadNext(hr)
        s == Skip(r.hr, r.ent)
    IN  IF ~r.ok
        THEN Result(MarkEnd(it), hr, FALSE, NoRaw, FALSE)
        ELSE IF ~s.ok
        THEN Result(MarkEnd(it), s.hr, FALSE, NoRaw, FALSE)
        ELSE Result([it EXCEPT !.value_ = IF statOk THEN EntryFromFindData(it.wfd_)
                                          ELSE EntryRenamed(it.value_, s.ent)],
                    s.hr, TRUE, s.ent, statOk)

\* Variant: a failed read leaves end_ as it was.
m_read_noend(b, it, H, statOk) ==
    IF it.handle_ = Null
    THEN Result(it, NoHandle, FALSE, NoRaw, FALSE)
    ELSE LET r == IF b = "windows" THEN m_read_windows(it, H[it.handle_])
                  ELSE m_read_linux(it, H[it.handle_], statOk)
         IN  [r EXCEPT !.it.end_ = it.end_]

\* _m_read: nothing happens without a handle
m_read(b, it, H, statOk) ==
    IF it.handle_ = Null
    THEN Result(it, NoHandle, FALSE, NoRaw, FALSE)
    ELSE IF b = "windows" THEN m_read_windows(it, H[it.handle_])
         ELSE m_read_linux(it, H[it.handle_], statOk)

\* ------------------------------------------------------------- history
\* A name made of '.' characters only.
AllDots(n) == Len(n) >= 1 /\ \A k \in 1..Len(n) : n[k] = "."

\* The qualifying raw entries of a directory, in native order.
Qualifying(raw) == SelectSeq(raw, LAMBDA r : ~AllDots(r.name))

Names(raw) == [k \in 1..Len(raw) |-> raw[k].name]

\* solo: built by directory_iterator(path) and never copied or assigned, so
\* it alone reads its cursor.  For a solo object: whether the path names a
\* directory, whether the native open succeeded, whether the constructor left
\* it live, the number of raw entries (nraw) and the names of the qualifying
\* entries (expect) of what the path names, the names the object has shown
\* (seen) and the advances made while live (advs).  For every object: the raw
\* entry its current entry was produced from (cur), whether the metadata of
\* that entry was available (metaOk), and whether the object was advanced
\* while at-end since it was last constructed or assigned (pastEnd), whether
\* an advance produced an entry for it since it was last constructed, copied
\* or assigned (moved), and whether it is what operator++(int) returned (post).
NoHist ==
    [solo |-> FALSE, isDir |-> FALSE, openOk |-> FALSE, startLive |-> FALSE,
     nraw |-> 0, expect |-> <<>>, seen |-> <<>>, advs |-> 0,
     cur |-> NoRaw, metaOk |-> FALSE, pastEnd |-> FALSE,
     moved |-> FALSE, post |-> FALSE]

Shared(g) == [NoHist EXCEPT !.cur = g.cur, !.metaOk = g.metaOk, !.pastEnd = g.pastEnd]

CopyOf(g) == [Shared(g) EXCEPT !.pastEnd = FALSE]

Born(b, inp, p) ==
    [solo |-> TRUE, isDir |-> inp.kind = "dir", openOk |-> NativeOpenOk(b, inp),
     startLive |-> ~p.it.end_,
     nraw |-> Len(inp.raw), expect |-> Names(Qualifying(inp.raw)),
     seen |-> IF p.it.end_ THEN <<>> ELSE <<p.it.value_.m_path>>,
     advs |-> 0, cur |-> p.cur, metaOk |-> p.metaOk, pastEnd |-> FALSE,
     moved |-> FALSE, post |-> FALSE]

Advanced(g, before, r) ==
    [g EXCEPT !.advs = IF g.solo /\ ~before.end_ THEN g.advs + 1 ELSE g.advs,
              !.pastEnd = g.pastEnd \/ before.end_,
              !.moved = g.moved \/ r.done,
              !.seen = IF g.solo /\ r.done THEN Append(g.seen, r.it.value_.m_path)
                       ELSE g.seen,
              !.cur = IF r.done THEN r.cur ELSE g.cur,
              !.metaOk = IF r.done THEN r.metaOk ELSE g.metaOk]

\* The most owners each handle has had, given the objects I.
Used(m, I) ==
    [h \in Handles |-> IF UseCount(I, h) > m[h] THEN UseCount(I, h) ELSE m[h]]

\* ----------------------------------------------------------------- actions
\* The value a const member call hands back: the entry for operator* and
\* operator->, the truth value for == and !=. again: the call before it was
\* the same call on the same object.
Ret(op, who, val, eq, again) ==
    [op |-> op, who |-> who, val |-> val, eq |-> eq, again |-> again]

NoRet == Ret("none", Null, DefaultEntry, FALSE, FALSE)

Init ==
    /\ backend \in Backends
    /\ its = [i \in Iters |-> NoIter]
    /\ hs = [h \in Handles |-> NoHandle]
    /\ nOpens = 0
    /\ hist = [i \in Iters |-> NoHist]
    /\ maxUse = [h \in Handles |-> 0]
    /\ ret = NoRet

\* directory_iterator()
DefaultConstruct(i) ==
    /\ ~its[i].alive
    /\ \E g \in UninitFindData :
          its' = [its EXCEPT ![i] = Iter(TRUE, g, Null, Null, DefaultEntry)]
    /\ hist' = [hist EXCEPT ![i] = NoHist]
    /\ UNCHANGED <<backend, hs, nOpens, maxUse>>
    /\ ret' = NoRet

\* directory_iterator(file_path)
Construct(i) ==
    /\ ~its[i].alive
    /\ \E inp \in PathInputs, g \in UninitFindData, statOk \in BOOLEAN :
          LET h == nOpens + 1
              p == m_prepare(backend, Iter(FALSE, g, Null, Null, DefaultEntry),
                             inp, statOk, h)
          IN  /\ NativeOpenOk(backend, inp) => nOpens < MaxOpens
              /\ its' = [its EXCEPT ![i] = p.it]
              /\ hs' = IF p.done THEN [hs EXCEPT ![h] = p.hr] ELSE hs
              /\ nOpens' = IF p.done THEN h ELSE nOpens
              /\ hist' = [hist EXCEPT ![i] = Born(backend, inp, p)]
    /\ maxUse' = Used(maxUse, its')
    /\ UNCHANGED backend
    /\ ret' = NoRet

\* directory_iterator(const directory_iterator&): memberwise copy into j
Copy(i, j) ==
    /\ its[i].alive /\ ~its[j].alive
    /\ its' = [its EXCEPT ![j] = its[i]]
    /\ hist' = [hist EXCEPT ![i] = Shared(hist[i]), ![j] = CopyOf(hist[i])]
    /\ maxUse' = Used(maxUse, its')
    /\ UNCHANGED <<backend, hs, nOpens>>
    /\ ret' = NoRet

\* operator=(const directory_iterator&): j = i, memberwise; the shared
\* pointer j held is dropped
Assign(i, j) ==
    /\ i # j /\ its[i].alive /\ its[j].alive
    /\ LET I == [its EXCEPT ![j] = its[i]]
       IN  /\ its' = I
           /\ hs' = Release(hs, I, its[j].find_ptr_)
    /\ hist' = [hist EXCEPT ![i] = Shared(hist[i]), ![j] = CopyOf(hist[i])]
    /\ maxUse' = Used(maxUse, its')
    /\ UNCHANGED <<backend, nOpens>>
    /\ ret' = NoRet

\* ~directory_iterator()
Destroy(i) ==
    /\ its[i].alive
    /\ LET I == [its EXCEPT ![i] = NoIter]
       IN  /\ its' = I
           /\ hs' = Release(hs, I, its[i].find_ptr_)
    /\ hist' = [hist EXCEPT ![i] = NoHist]
    /\ UNCHANGED <<backend, nOpens, maxUse>>
    /\ ret' = NoRet

\* Variant: the entry read is stored in every object that shares the handle.
PreInc_shared(i) ==
    /\ its[i].alive
    /\ \E statOk \in BOOLEAN :
          LET r == m_read(backend, its[i], hs, statOk)
          IN  /\ its' = [j \in Iters |->
                            IF j = i THEN r.it
                            ELSE IF /\ its[j].alive /\ its[i].find_ptr_ # Null
                                    /\ its[j].find_ptr_ = its[i].find_ptr_
                            THEN [its[j] EXCEPT !.end_ = r.it.end_,
                                                !.value_ = r.it.value_]
                            ELSE its[j]]
              /\ hs' = IF its[i].handle_ = Null THEN hs
                       ELSE [hs EXCEPT ![its[i].handle_] = r.hr]
              /\ hist' = [hist EXCEPT ![i] = Advanced(hist[i], its[i], r)]
    /\ UNCHANGED <<backend, nOpens, maxUse>>
    /\ ret' = NoRet

\* operator++()
PreInc(i) ==
    /\ its[i].alive
    /\ \E statOk \in BOOLEAN :
          LET r == m_read(backend, its[i], hs, statOk)
          IN  /\ its' = [its EXCEPT ![i] = r.it]
              /\ hs' = IF its[i].handle_ = Null THEN hs
                       ELSE [hs EXCEPT ![its[i].handle_] = r.hr]
              /\ hist' = [hist EXCEPT ![i] = Advanced(hist[i], its[i], r)]
    /\ UNCHANGED <<backend, nOpens, maxUse>>
    /\ ret' = NoRet

\* Variant: the copy that is returned is taken after the read.
PostInc_late(i, j) ==
    /\ its[i].alive /\ ~its[j].alive
    /\ \E statOk \in BOOLEAN :
          LET r == m_read(backend, its[i], hs, statOk)
          IN  /\ its' = [its EXCEPT ![i] = r.it, ![j] = r.it]
              /\ hs' = IF its[i].handle_ = Null THEN hs
                       ELSE [hs EXCEPT ![its[i].handle_] = r.hr]
              /\ hist' = [hist EXCEPT ![i] = Advanced(Shared(hist[i]), its[i], r),
                                      ![j] = [CopyOf(hist[i]) EXCEPT !.post = TRUE]]
    /\ maxUse' = Used(maxUse, its')
    /\ UNCHANGED <<backend, nOpens>>
    /\ ret' = NoRet

\* operator++(int): the copy made before the read is returned into slot j
PostInc(i, j) ==
    /\ its[i].alive /\ ~its[j].alive
    /\ \E statOk \in BOOLEAN :
          LET r == m_read(backend, its[i], hs, statOk)
          IN  /\ its' = [its EXCEPT ![i] = r.it, ![j] = its[i]]
              /\ hs' = IF its[i].handle_ = Null THEN hs
                       ELSE [hs EXCEPT ![its[i].handle_] = r.hr]
              /\ hist' = [hist EXCEPT ![i] = Advanced(Shared(hist[i]), its[i], r),
                                      ![j] = [CopyOf(hist[i]) EXCEPT !.post = TRUE]]
    /\ maxUse' = Used(maxUse, its')
    /\ UNCHANGED <<backend, nOpens>>
    /\ ret' = NoRet

\* Variant: dereferencing reads the next entry from the cursor first.
Deref_reading(i) ==
    /\ its[i].alive
    /\ \E statOk \in BOOLEAN :
          LET r == m_read(backend, its[i], hs, statOk)
          IN  /\ its' = [its EXCEPT ![i] = r.it]
              /\ hs' = IF its[i].handle_ = Null THEN hs
                       ELSE [hs EXCEPT ![its[i].handle_] = r.hr]
              /\ ret' = Ret("deref", i, r.it.value_, FALSE,
                            ret.op = "deref" /\ ret.who = i)
    /\ UNCHANGED <<backend, nOpens, hist, maxUse>>

\* operator*() const, operator->() const
Deref(i) ==
    /\ its[i].alive
    /\ ret' = Ret("deref", i, its[i].value_, FALSE,
                  ret.op = "deref" /\ ret.who = i)
    /\ UNCHANGED <<backend, its, hs, nOpens, hist, maxUse>>

\* operator==(x, y) and operator!=(x, y)
Compare(i, j) ==
    /\ its[i].alive /\ its[j].alive
    /\ \E op \in {"==", "!="} :
          ret' = Ret(op, Null, DefaultEntry,
                     IF op = "==" THEN equal(its[i], its[j])
                     ELSE ~equal(its[i], its[j]),
                     FALSE)
    /\ UNCHANGED <<backend, its, hs, nOpens, hist, maxUse>>

Next ==
    \/ \E i \in Iters : DefaultConstruct(i)
    \/ \E i \in Iters : Construct(i)
    \/ \E i, j \in Iters : Copy(i, j)
    \/ \E i, j \in Iters : Assign(i, j)
    \/ \E i \in Iters : Destroy(i)
    \/ \E i \in Iters : PreInc(i)
    \/ \E i, j \in Iters : PostInc(i, j)

Spec == Init /\ [][Next]_vars

\* Enumeration loops: iterators are built, copied and advanced, and the
\* caller's loop keeps advancing the iterator it holds.
NextLoop ==
    \/ \E i \in Iters : Construct(i)
    \/ \E i, j \in Iters : Copy(i, j)
    \/ \E i \in Iters : PreInc(i)

\* Enumeration loops that also look at the iterators they hold.
NextObs ==
    \/ \E i \in Iters : Construct(i)
    \/ \E i, j \in Iters : Copy(i, j)
    \/ \E i \in Iters : PreInc(i)
    \/ \E i \in Iters : Deref(i)
    \/ \E i, j \in Iters : Compare(i, j)

SpecObs == Init /\ [][NextObs]_vars

SpecFair == Init /\ [][NextLoop]_vars /\ \A i \in Iters : WF_vars(PreInc(i))

\* ------------------------------------------------------------------ claims
Alive == { i \in Iters : its[i].alive }

\* The objects built from a path naming a directory that alone read their cursor.
SoloDir == { i \in Alive : hist[i].solo /\ hist[i].isDir }

\* A default-constructed directory_iterator(), whatever wfd_ holds.
Sentinels == { Iter(TRUE, g, Null, Null, DefaultEntry) : g \in UninitFindData }

IsPrefix(s, t) == Len(s) <= Len(t) /\ s = SubSeq(t, 1, Len(s))

\* C1: the names an object shows, from its construction on a directory through
\* its advances, are the names of the directory's qualifying raw entries, each
\* once and in native order: a prefix of them while it is live, all of them
\* once it is at-end.
C1_EnumeratesQualifying ==
    \A i \in SoloDir :
        /\ IsPrefix(hist[i].seen, hist[i].expect)
        /\ its[i].end_ => hist[i].seen = hist[i].expect

\* C2: the current entry of a live iterator never has a name made of '.'
\* characters only.
C2_NeverAllDots ==
    \A i \in Alive : ~its[i].end_ => ~AllDots(its[i].value_.m_path)

\* C3: x == y exactly when both are at-end, or both are live and the names of
\* their current entries are equal.
C3_EqualIff ==
    \A i, j \in Alive :
        equal(its[i], its[j]) <=>
            \/ its[i].end_ /\ its[j].end_
            \/ /\ ~its[i].end_ /\ ~its[j].end_
               /\ its[i].value_.m_path = its[j].value_.m_path

\* C4: an iterator built on a directory and advanced any number of times
\* compares equal to directory_iterator() exactly when it is at-end.
C4_SentinelIffEnd ==
    \A i \in SoloDir : \A s \in Sentinels : equal(its[i], s) <=> its[i].end_

\* C5: an iterator the constructor left live on a directory with k qualifying
\* entries has k >= 1, is live after fewer than k advances and at-end after
\* the k-th.
C5_EndOnKthAdvance ==
    \A i \in SoloDir :
        hist[i].startLive =>
            LET k == Len(hist[i].expect)
            IN  /\ k >= 1
                /\ hist[i].advs <= k
                /\ its[i].end_ <=> hist[i].advs = k

\* C5 witness: two qualifying entries and an all-dot entry, advanced twice to
\* the end.
C5_Witness ==
    \E i \in SoloDir :
        /\ hist[i].startLive /\ its[i].end_
        /\ hist[i].advs = 2 /\ Len(hist[i].expect) = 2 /\ hist[i].nraw = 3

\* C6: a handle that was stored in a live iterator is open as long as an
\* iterator owns it and has been closed exactly once as soon as none does.
C6_ReleasedExactlyOnce ==
    \A h \in Handles :
        maxUse[h] >= 1 =>
            hs[h].closes = IF UseCount(its, h) = 0 THEN 1 ELSE 0

\* C6 witness: a handle two iterators shared has been released.
C6_Witness ==
    \E h \in Handles : maxUse[h] >= 2 /\ UseCount(its, h) = 0 /\ hs[h].closes = 1

\* C7: an iterator built on an existing directory without a qualifying entry
\* is at-end and equal to directory_iterator(), in either order.
C7_EmptyDirIsEnd ==
    \A i \in SoloDir :
        hist[i].expect = <<>> =>
            /\ its[i].end_
            /\ \A s \in Sentinels : equal(its[i], s) /\ equal(s, its[i])

\* C7 witness: an iterator built on a directory holding all-dot names only.
C7_Witness ==
    \E i \in SoloDir : hist[i].expect = <<>> /\ hist[i].nraw >= 2 /\ its[i].end_

\* What a caller can tell of an iterator: the flag, the handles, the entry.
Observable(it) == <<it.end_, it.handle_, it.find_ptr_, it.value_>>

\* C8: an iterator built on a path whose native open fails is at-end, holds no
\* handle, and looks like one built on an empty directory.
C8_OpenFailureIsEnd ==
    \A i \in Alive :
        hist[i].solo /\ (~hist[i].openOk \/ (hist[i].isDir /\ hist[i].nraw = 0)) =>
            Observable(its[i]) = <<TRUE, Null, Null, DefaultEntry>>

\* C8 witness: the native open failed on a path that names no directory.
C8_Witness ==
    \E i \in Alive : hist[i].solo /\ ~hist[i].openOk /\ ~hist[i].isDir /\ its[i].end_

\* C9: an iterator that was advanced while at-end is at-end.
C9_EndIsTerminal ==
    \A i \in Alive : hist[i].pastEnd => its[i].end_

\* C9 witness: an exhausted iterator that still holds its handle was advanced
\* again.
C9_Witness ==
    \E i \in Alive : hist[i].pastEnd /\ its[i].end_ /\ its[i].handle_ # Null

\* C10: the directory flag and the size of the current entry of a live
\* iterator are those of the raw entry it was produced from (where the
\* metadata of that entry could be read and its size is below 2^32).
C10_TypeAndSize ==
    \A i \in Alive :
        ~its[i].end_ /\ hist[i].metaOk /\ hist[i].cur.size.hi = 0 =>
            /\ its[i].value_.directory = hist[i].cur.dir
            /\ its[i].value_.size = hist[i].cur.size

\* What one _m_read on object i does to the objects and the cursors.
ReadsOnce(i) ==
    \E statOk \in BOOLEAN :
        LET r == m_read(backend, its[i], hs, statOk)
        IN  /\ its'[i] = r.it
            /\ hs' = IF its[i].handle_ = Null THEN hs
                     ELSE [hs EXCEPT ![its[i].handle_] = r.hr]

\* C11: operator++(int) returns an iterator with the at-end flag and the
\* current entry the operand had before the call, and advances the operand as
\* one operator++() does.
C11_PostIncReturnsPrior ==
    [][\A i, j \in Iters :
          PostInc(i, j) =>
              /\ its'[j].end_ = its[i].end_
              /\ its'[j].value_ = its[i].value_
              /\ ReadsOnce(i)]_vars

\* C11 witness: a returned iterator is live on the entry its operand has left.
C11_Witness ==
    \E i, j \in Alive :
        /\ hist[j].post /\ ~its[j].end_ /\ hist[i].moved
        /\ its[i].find_ptr_ = its[j].find_ptr_
        /\ its[i].value_ # its[j].value_

\* C12: an iterator that keeps being advanced does not stay live for ever: it
\* reaches the at-end state (or is destroyed first).
C12_AdvancingReachesEnd ==
    \A i \in Iters :
        (its[i].alive /\ ~its[i].end_) ~> (~its[i].alive \/ its[i].end_)

\* C12 witness: an iterator the constructor left live, with an all-dot entry
\* among its raw entries, has been advanced to the end.
C12_Witness ==
    \E i \in SoloDir :
        /\ hist[i].startLive /\ its[i].end_ /\ hist[i].moved
        /\ hist[i].nraw > Len(hist[i].expect)

\* C13: operator*, operator->, == and != change neither any iterator (at-end
\* flag, current entry) nor the native cursor; operator* returns the current
\* entry, and called twice in a row on one object returns equal entries.
C13_ObserversArePure ==
    [][/\ \A i \in Iters :
            Deref(i) =>
                /\ its' = its /\ hs' = hs
                /\ ret'.val = its[i].value_
                /\ (ret.op = "deref" /\ ret.who = i) => ret'.val = ret.val
       /\ \A i, j \in Iters :
            Compare(i, j) => its' = its /\ hs' = hs]_vars

\* a live iterator that has advanced is dereferenced twice in a row
C13_Witness ==
    /\ ret.op = "deref" /\ ret.again
    /\ its[ret.who].alive /\ ~its[ret.who].end_
    /\ its[ret.who].handle_ # Null /\ hist[ret.who].moved

\* C14: an iterator that is at-end holds no native handle, neither the raw
\* handle nor a shared ownership reference.
C14_EndHoldsNoHandle ==
    \A i \in Alive :
        its[i].end_ => its[i].handle_ = Null /\ its[i].find_ptr_ = Null

\* C15: on the backend that queries stat, a qualifying entry whose stat
\* failed is shown with its name, size 0 and directory false, whether the
\* constructor or an advance produced it.
C15_StatFailureFallback ==
    \A i \in Alive :
        ( /\ backend = "linux" /\ ~its[i].end_
          /\ hist[i].cur # NoRaw /\ ~hist[i].metaOk )
        => its[i].value_ = Entry(hist[i].cur.name, FALSE, Zero)

\* C16: an advance of one iterator leaves every other iterator object as it
\* was (at-end flag, current entry and all), also when they share the handle.
C16_AdvanceLeavesOthers ==
    [][\A i \in Iters :
          /\ PreInc(i) => \A j \in Iters \ {i} : its'[j] = its[j]
          /\ \A k \in Iters :
                PostInc(i, k) => \A j \in Iters \ {i, k} : its'[j] = its[j]]_vars

\* one copy was advanced up to the end while the copy sharing its handle is
\* still live on the entry it was copied with
C16_Witness ==
    \E i, j \in Alive :
        /\ i # j /\ its[i].find_ptr_ # Null
        /\ its[i].find_ptr_ = its[j].find_ptr_
        /\ hist[i].moved /\ its[i].end_
        /\ ~hist[j].moved /\ ~hist[j].post /\ ~its[j].end_

\* The cursor after the first qualifying entry of rest has been read.
AfterFirstQualifying(rest) ==
    LET k == CHOOSE k \in 1..Len(rest) :
                 /\ ~AllDots(rest[k].name)
                 /\ \A m \in 1..(k - 1) : AllDots(rest[m].name)
    IN  SubSeq(rest, k + 1, Len(rest))

\* C17: every advance of an object holding a handle consumes from the one
\* cursor of that handle: it yields the first qualifying entry not yet read
\* by any sharing object and leaves the cursor just after it, so no raw
\* entry is produced twice; with none left the object becomes at-end.
C17_SharedCursor ==
    [][\A i \in Iters :
          (PreInc(i) /\ its[i].handle_ # Null) =>
              LET h == its[i].handle_
                  q == Qualifying(hs[h].rest)
              IN  IF q = <<>>
                  THEN its'[i].end_ /\ hs'[h].rest = <<>>
                  ELSE /\ its'[i].value_.m_path = q[1].name
                       /\ hs'[h].rest = AfterFirstQualifying(hs[h].rest)]_vars

\* C18: the size shown for a regular file is its byte length, also when the
\* length is 2^32 or more.
C18_FullFileSize ==
    \A i \in Alive :
        ( /\ ~its[i].end_ /\ hist[i].cur # NoRaw
          /\ hist[i].metaOk /\ ~hist[i].cur.dir )
        => its[i].value_.size = hist[i].cur.size

\* C19: a handle that the constructor opened but did not hand to the object
\* (the constructor ended at-end) has been closed exactly once.
C19_NoLeakFromConstructor ==
    \A h \in Handles :
        (h <= nOpens /\ maxUse[h] = 0) =>
            hs[h].state = "closed" /\ hs[h].closes = 1

\* C20: an object whose raw handle_ is set also owns the handle through
\* find_ptr_, and the handle is open.
C20_RawHandleIsOwned ==
    \A i \in Alive :
        its[i].handle_ # Null =>
            /\ its[i].find_ptr_ = its[i].handle_
            /\ hs[its[i].handle_].state = "open"

\* an object that has advanced still reads from the handle after the copy
\* it shared the handle with was destroyed
C20_Witness ==
    \E i \in Alive :
        /\ its[i].handle_ # Null /\ hist[i].moved
        /\ maxUse[its[i].handle_] >= 2
        /\ UseCount(its, its[i].handle_) = 1

=============================================================================
